---- MODULE Spec2Model ----
(***************************************************************************)
(* Model of MarketPlaceCommunication                                       *)
(* (extensions/mktplace/mktplace/mktplace_communication.py): the session   *)
(* cookie held by a client instance, the three public operations           *)
(* headrequest, getmsg and postmsg, and the translation of transport and   *)
(* HTTP outcomes into return values and exceptions.                        *)
(*                                                                         *)
(* Strings that the code only compares or passes along are model strings;  *)
(* strings the code takes apart (paths, URLs, response bodies) are         *)
(* sequences of tokens, "/" being a token of its own.  Python's None is    *)
(* the string None below; NoCode stands for "no HTTP status".              *)
(***************************************************************************)
EXTENDS Integers, Sequences, FiniteSets, TLC

VARIABLES BaseURL, cookie, last, uses, run, runCookie, probed, thr, overlap,
          cli

vars ==
    <<BaseURL, cookie, last, uses, run, runCookie, probed, thr, overlap, cli>>

(***************************************************************************)
(* Bound of the history counter uses (it saturates at the bound).          *)
(***************************************************************************)
MaxUses == 2

(***************************************************************************)
(* Values                                                                  *)
(***************************************************************************)
None == "None"
NoCode == 0
Marker == "InvalidTransactionError"
Reserved == <<"/", "prevalidation">>
SessionNotEnabled == "Session is not enabled"

GetTimeout == 10
PostTimeout == 10

\* HeadTimeout, had the status probe been given the shorter time.
HeadTimeout_Short == GetTimeout - 5

HeadTimeout == 30

\* Python truthiness of self._cookie: None and '' are both false.
Truthy(c) == c # None /\ c # ""

\* Inputs: the path arguments, the message type, the base URLs handed to the
\* constructor, and what the network can answer.
Paths == {<<>>, Reserved, <<"/", "prevalidation", "/">>}
MsgTypes == {<<"/", "mktplace.transactions.MarketPlace">>}
BaseUrlArgs == {<<"http://host:8800">>, <<"http://host:8800", "/">>}
CookieValues == {"", "sid=A", "sid=B"}
SetCookieHeaders == {None} \cup CookieValues
ContentTypes == {None, "application/json", "application/cbor", "text/plain"}
ErrorBodies == {<<>>, <<"junk">>, <<Marker>>, <<"junk", Marker>>}
Bodies == {<<>>, <<"payload">>}
SuccessCodes == {200}
ErrorCodes == {400, 404, 500}
Reasons == {"timed out", "Connection refused"}

\* What opener.open can do: raise urllib2.URLError (no HTTP response), raise
\* anything else (socket.timeout, BadStatusLine, ...), raise
\* urllib2.HTTPError for an error status, or return a response.  open
\* comes back once the status line and the headers are in; the body is
\* read from the socket afterwards, by read(), and bodyOk tells whether
\* that read gets to the end of the body or fails (time-out, reset).
TransportOutcomes ==
    { [kind |-> "URLError", code |-> NoCode, reason |-> r, body |-> <<>>,
       bodyOk |-> TRUE, ctype |-> None, setCookie |-> None] : r \in Reasons }
    \cup
    { [kind |-> "other", code |-> NoCode, reason |-> None, body |-> <<>>,
       bodyOk |-> TRUE, ctype |-> None, setCookie |-> None] }

ErrorOutcomes ==
    { [kind |-> "HTTPError", code |-> c, reason |-> None, body |-> b,
       bodyOk |-> TRUE, ctype |-> "text/plain", setCookie |-> s] :
         c \in ErrorCodes, b \in ErrorBodies, s \in {None, "sid=B"} }
    \cup
    { [kind |-> "HTTPError", code |-> c, reason |-> None, body |-> <<>>,
       bodyOk |-> FALSE, ctype |-> "text/plain", setCookie |-> None] :
         c \in ErrorCodes }

SuccessOutcomes ==
    { [kind |-> "response", code |-> c, reason |-> None, body |-> b,
       bodyOk |-> TRUE, ctype |-> t, setCookie |-> s] :
         c \in SuccessCodes, b \in Bodies, t \in ContentTypes,
         s \in SetCookieHeaders }
    \cup
    { [kind |-> "response", code |-> c, reason |-> None, body |-> <<>>,
       bodyOk |-> FALSE, ctype |-> "application/cbor", setCookie |-> s] :
         c \in SuccessCodes, s \in {None, "sid=B"} }

Outcomes == TransportOutcomes \cup ErrorOutcomes \cup SuccessOutcomes

NoOutcome == [kind |-> "none", code |-> NoCode, reason |-> None, body |-> <<>>,
              bodyOk |-> TRUE, ctype |-> None, setCookie |-> None]

(***************************************************************************)
(* String helpers                                                          *)
(***************************************************************************)
RECURSIVE lstrip(_)
lstrip(s) == IF s # <<>> /\ Head(s) = "/" THEN lstrip(Tail(s)) ELSE s

RECURSIVE rstrip(_)
rstrip(s) ==
    IF s # <<>> /\ s[Len(s)] = "/" THEN rstrip(SubSeq(s, 1, Len(s) - 1)) ELSE s

strip(s) == rstrip(lstrip(s))

\* str.find: index (from 0) of the first occurrence, -1 when there is none.
RECURSIVE findFrom(_, _, _)
findFrom(s, sub, i) ==
    IF i > Len(s) THEN -1
    ELSE IF s[i] = sub THEN i - 1
    ELSE findFrom(s, sub, i + 1)

find(s, sub) == findFrom(s, sub, 1)

\* Python truthiness of an int.
IntTruthy(n) == n # 0

\* The decoders of gossip.common: the mapping a body decodes to, named by
\* the decoder and the bytes it was given.
json2dict(content) == [codec |-> "json", of |-> content]
cbor2dict(content) == [codec |-> "cbor", of |-> content]

(***************************************************************************)
(* Results of a call: a returned value or a raised exception.              *)
(***************************************************************************)
\* vtype tells what was returned: "status" (code), "sentinel", "dict" or
\* "bytes" (value), or "None".
NoValue == [codec |-> None, of |-> <<>>]

Returned(vtype, code, value) ==
    [kind |-> "return", vtype |-> vtype, code |-> code, value |-> value,
     exc |-> None, msg |-> None, errcode |-> NoCode, errtext |-> <<>>]

Raised(exc, msg, errcode, errtext) ==
    [kind |-> "raise", vtype |-> None, code |-> NoCode, value |-> NoValue,
     exc |-> exc, msg |-> msg, errcode |-> errcode, errtext |-> errtext]

NoResult == Returned(None, NoCode, NoValue)

\* The body of a response as the file object the code reads it from: the
\* part not read yet, and whether reading it goes well.
BodyFile(o) == [data |-> o.body, ok |-> o.bodyOk]

\* The exception object urllib2 raises for an error status.
HTTPError(o) == [code |-> o.code, fp |-> BodyFile(o)]

\* read(): everything up to end of file, the file then being at its end;
\* or the socket's exception.
read(fp) ==
    [raised |-> ~fp.ok, content |-> fp.data, fp |-> [fp EXCEPT !.data = <<>>]]

\* The exception of a failed read, which no handler of the three
\* operations catches: the reads are outside the try blocks or inside an
\* except clause.
ReadFailure == Raised("socket.error", None, NoCode, <<>>)

\* except urllib2.URLError / bare except: the same in the three operations.
TransportFailure(o) ==
    IF o.kind = "URLError"
    THEN Raised("MessageException", "operation failed: {0}", NoCode,
                <<o.reason>>)
    ELSE Raised("MessageException", "no response from server", NoCode, <<>>)

\* _print_error_information_from_server: reads and logs the body of a 400.
print_error_information_from_server(err) ==
    IF err.code = 400
    THEN LET r == read(err.fp)
         IN  [raised |-> r.raised, err |-> [err EXCEPT !.fp = r.fp],
              logged |-> ~r.raised, text |-> r.content]
    ELSE [raised |-> FALSE, err |-> err, logged |-> FALSE, text |-> <<>>]

(***************************************************************************)
(* headrequest                                                             *)
(***************************************************************************)

\* HeadAttach, had the cookie stayed in the store after it was attached.
HeadAttach_Keep(path, c) ==
    IF path = Reserved
    THEN IF Truthy(c)
         THEN [send |-> TRUE, header |-> c, cookie |-> c]
         ELSE [send |-> FALSE, header |-> None, cookie |-> c]
    ELSE [send |-> TRUE, header |-> None, cookie |-> c]

\* HeadAttach without the early return: the request goes out regardless.
HeadAttach_NoPrecheck(path, c) ==
    IF path = Reserved /\ Truthy(c)
    THEN [send |-> TRUE, header |-> c, cookie |-> None]
    ELSE [send |-> TRUE, header |-> None, cookie |-> c]

\* HeadAttach, had the path been compared after stripping its slashes.
HeadAttach_Stripped(path, c) ==
    IF strip(path) = strip(Reserved)
    THEN IF Truthy(c)
         THEN [send |-> TRUE, header |-> c, cookie |-> None]
         ELSE [send |-> FALSE, header |-> None, cookie |-> c]
    ELSE [send |-> TRUE, header |-> None, cookie |-> c]

\* Lines 62-67: the cookie header of the request, whether the request is
\* sent at all, and the cookie the client holds afterwards.
HeadAttach(path, c) ==
    IF path = Reserved
    THEN IF Truthy(c)
         THEN [send |-> TRUE, header |-> c, cookie |-> None]
         ELSE [send |-> FALSE, header |-> None, cookie |-> c]
    ELSE [send |-> TRUE, header |-> None, cookie |-> c]

\* HeadResult, had an error status been raised as in getmsg.
HeadResult_Raise(o) ==
    CASE o.kind = "response" -> Returned("status", o.code, NoValue)
      [] o.kind = "HTTPError" ->
           Raised("MessageException", "operation failed with response: {0}",
                  o.code, <<>>)
      [] OTHER -> TransportFailure(o)

HeadResult(o) ==
    CASE o.kind = "response" -> Returned("status", o.code, NoValue)
      [] o.kind = "HTTPError" -> Returned("status", o.code, NoValue)
      [] OTHER -> TransportFailure(o)

HeadUrl(base, path) == base \o <<"/">> \o strip(path)

(***************************************************************************)
(* getmsg                                                                  *)
(***************************************************************************)

\* GetAttach, had the path not been looked at.
GetAttach_AnyPath(path, c) ==
    IF Truthy(c)
    THEN [header |-> c, cookie |-> c]
    ELSE [header |-> None, cookie |-> c]

GetAttach(path, c) ==
    IF path = Reserved /\ Truthy(c)
    THEN [header |-> c, cookie |-> c]
    ELSE [header |-> None, cookie |-> c]

GetHTTPError(err0) ==
    LET p == print_error_information_from_server(err0)
    IN  [ret |-> IF p.raised THEN ReadFailure
                 ELSE Raised("MessageException",
                             "operation failed with response: {0}",
                             p.err.code, <<>>),
         logged |-> p.logged, logtext |-> p.text]

GetDecode(encoding, content) ==
    IF encoding = "application/json"
    THEN Returned("dict", NoCode, json2dict(content))
    ELSE IF encoding = "application/cbor"
    THEN Returned("dict", NoCode, cbor2dict(content))
    ELSE Returned("bytes", NoCode, [codec |-> None, of |-> content])

\* Lines 124-139: read the body, then decode it.
GetResponse(o) ==
    LET r == read(BodyFile(o))
    IN  IF r.raised THEN ReadFailure ELSE GetDecode(o.ctype, r.content)

GetUrl(base, path) == base \o <<"/">> \o strip(path)

(***************************************************************************)
(* postmsg                                                                 *)
(***************************************************************************)

\* PostAttach, had attaching cleared the store.
PostAttach_OneShot(path, c) ==
    IF path = Reserved /\ Truthy(c)
    THEN [header |-> c, cookie |-> None]
    ELSE [header |-> None, cookie |-> c]

PostAttach(path, c) ==
    IF path = Reserved /\ Truthy(c)
    THEN [header |-> c, cookie |-> c]
    ELSE [header |-> None, cookie |-> c]

\* PostCapture, had the response's header always replaced the stored value.
PostCapture_Overwrite(path, c, setCookie) ==
    IF path = Reserved /\ setCookie # None THEN setCookie ELSE c

\* Lines 166-167, reached only when opener.open returned a response.
PostCapture(path, c, setCookie) ==
    IF path = Reserved /\ ~Truthy(c) THEN setCookie ELSE c

\* PostCookieAfter, had the capture been done for error responses too.
PostCookieAfter_AnyStatus(path, c, o) ==
    IF o.kind \in {"response", "HTTPError"}
    THEN PostCapture(path, c, o.setCookie)
    ELSE c

\* Lines 165-172: the capture is skipped when opener.open raises.
PostCookieAfter(path, c, o) ==
    IF o.kind = "response" THEN PostCapture(path, c, o.setCookie) ELSE c

\* MarkerTest, had the index been compared with the start of the body.
MarkerTest_Positive(err_content) == find(err_content, Marker) > 0

\* Line 177: the value of err_content.find(...) used as a condition.
MarkerTest(err_content) == IntTruthy(find(err_content, Marker))

PostHTTPError(err0) ==
    LET p == print_error_information_from_server(err0)
        r == read(p.err.fp)
    IN  [ret |-> IF p.raised \/ (p.err.code = 400 /\ r.raised)
                 THEN ReadFailure
                 ELSE IF p.err.code = 400 /\ MarkerTest(r.content)
                 THEN Raised("InvalidTransactionError",
                             "Error from server: {0}", NoCode, r.content)
                 ELSE Raised("MessageException",
                             "operation failed with response: {0}",
                             p.err.code, <<>>),
         logged |-> p.logged, logtext |-> p.text]

\* PostDecode, had the last branch returned the content as getmsg does.
PostDecode_Raw(encoding, content) ==
    IF encoding = "application/json"
    THEN Returned("dict", NoCode, json2dict(content))
    ELSE IF encoding = "application/cbor"
    THEN Returned("dict", NoCode, cbor2dict(content))
    ELSE Returned("bytes", NoCode, [codec |-> None, of |-> content])

PostDecode(encoding, content) ==
    IF encoding = "application/json"
    THEN Returned("dict", NoCode, json2dict(content))
    ELSE IF encoding = "application/cbor"
    THEN Returned("dict", NoCode, cbor2dict(content))
    ELSE Returned("None", NoCode, NoValue)

\* Lines 192-208: read the body, then decode it.
PostResponse(o) ==
    LET r == read(BodyFile(o))
    IN  IF r.raised THEN ReadFailure ELSE PostDecode(o.ctype, r.content)

PostUrl(base, path, msgtype) == base \o path \o msgtype

(***************************************************************************)
(* do_batch (cli/sawtooth_cli/batch.py): the batch list and batch show     *)
(* commands.  A batch is a mapping (a function on its keys); the printers  *)
(* of format_utils are outside this module and a run of do_batch is        *)
(* described by the calls it made to them.                                 *)
(***************************************************************************)
MaxBatches == 2

Formats == {"default", "csv", "json", "yaml", "xml"}
Subcommands == {"list", "show"}
ShowKeys == {None, "header_signature", "signer_pubkey", "transactions",
             "nokey"}

BatchRecords ==
    { [header_signature |-> "abc", transactions |-> <<"t1", "t2">>,
       header |-> [signer_pubkey |-> "pk1"]],
      [header_signature |-> "def", header |-> [signer_pubkey |-> "pk2"]],
      [header_signature |-> "ghi", transactions |-> <<>>,
       header |-> [signer_pubkey |-> "pk1"]] }

\* What rest_client.list_batches() can return.
BatchLists == UNION { [1..n -> BatchRecords] : n \in 0..MaxBatches }

\* dict.get(key, default)
get(d, key, default) == IF key \in DOMAIN d THEN d[key] ELSE default

\* str.upper, on the three column names.
upper(k) ==
    CASE k = "batch_id" -> "BATCH_ID"
      [] k = "txns" -> "TXNS"
      [] k = "signer" -> "SIGNER"

keys == <<"batch_id", "txns", "signer">>
headers == [i \in 1..Len(keys) |-> upper(keys[i])]

\* parse_batch_row, had a missing 'transactions' been counted as one entry.
parse_batch_row_Strict(batch) ==
    <<batch["header_signature"],
      IF "transactions" \in DOMAIN batch THEN Len(batch["transactions"])
      ELSE 1,
      batch["header"]["signer_pubkey"]>>

parse_batch_row(batch) ==
    <<batch["header_signature"],
      Len(get(batch, "transactions", <<>>)),
      batch["header"]["signer_pubkey"]>>

\* {k: d for k, d in zip(keys, row)}
ZipDict(ks, row) ==
    [k \in {ks[i] : i \in 1..Len(ks)} |->
       row[CHOOSE i \in 1..Len(ks) : ks[i] = k]]

\* Line 87-88: the data handed to print_yaml / print_json by batch list.
ListData(batches) ==
    [i \in 1..Len(batches) |-> ZipDict(keys, parse_batch_row(batches[i]))]

\* print_terminal_table and print_csv get the batches and the row function;
\* these are the rows they make of them.
PrinterRows(batches) ==
    [i \in 1..Len(batches) |-> parse_batch_row(batches[i])]

PrintCall(printer, hdrs, rows, data) ==
    [printer |-> printer, headers |-> hdrs, rows |-> rows, data |-> data]

Ran(sub, format, key, input, printed, exc, msg, arg) ==
    [subcommand |-> sub, format |-> format, key |-> key, input |-> input,
     printed |-> printed, exc |-> exc, msg |-> msg, arg |-> arg]

NoRun == Ran(None, None, None, <<>>, <<>>, None, None, None)

MissingHandler(sub, format, key, input) ==
    Ran(sub, format, key, input, <<>>, "AssertionError",
        "Missing handler: {}", format)

\* ListRun, had an unknown format fallen back to the table.
ListRun_DefaultTable(format, batches) ==
    IF format = "csv"
    THEN Ran("list", format, None, batches,
             <<PrintCall("print_csv", headers, PrinterRows(batches), <<>>)>>,
             None, None, None)
    ELSE IF format = "json" \/ format = "yaml"
    THEN Ran("list", format, None, batches,
             <<PrintCall(IF format = "yaml" THEN "print_yaml"
                         ELSE "print_json",
                         <<>>, <<>>, ListData(batches))>>,
             None, None, None)
    ELSE Ran("list", format, None, batches,
             <<PrintCall("print_terminal_table", headers,
                         PrinterRows(batches), <<>>)>>,
             None, None, None)

\* Lines 69-98.
ListRun(format, batches) ==
    IF format = "default"
    THEN Ran("list", format, None, batches,
             <<PrintCall("print_terminal_table", headers,
                         PrinterRows(batches), <<>>)>>,
             None, None, None)
    ELSE IF format = "csv"
    THEN Ran("list", format, None, batches,
             <<PrintCall("print_csv", headers, PrinterRows(batches), <<>>)>>,
             None, None, None)
    ELSE IF format = "json" \/ format = "yaml"
    THEN IF format = "yaml"
         THEN Ran("list", format, None, batches,
                  <<PrintCall("print_yaml", <<>>, <<>>, ListData(batches))>>,
                  None, None, None)
         ELSE IF format = "json"
         THEN Ran("list", format, None, batches,
                  <<PrintCall("print_json", <<>>, <<>>, ListData(batches))>>,
                  None, None, None)
         ELSE MissingHandler("list", format, None, batches)
    ELSE MissingHandler("list", format, None, batches)

\* Lines 103-110: the part of the batch that args.key selects.
ShowLookup(output, key) ==
    IF Truthy(key)
    THEN IF key \in DOMAIN output
         THEN [found |-> TRUE, output |-> output[key]]
         ELSE IF key \in DOMAIN output["header"]
         THEN [found |-> TRUE, output |-> output["header"][key]]
         ELSE [found |-> FALSE, output |-> output]
    ELSE [found |-> TRUE, output |-> output]

\* Lines 100-117.
ShowRun(format, key, batch) ==
    LET l == ShowLookup(batch, key)
    IN  IF ~l.found
        THEN Ran("show", format, key, <<batch>>, <<>>, "CliException",
                 "key \"{}\" not found in batch or header", key)
        ELSE IF format = "yaml"
        THEN Ran("show", format, key, <<batch>>,
                 <<PrintCall("print_yaml", <<>>, <<>>, <<l.output>>)>>,
                 None, None, None)
        ELSE IF format = "json"
        THEN Ran("show", format, key, <<batch>>,
                 <<PrintCall("print_json", <<>>, <<>>, <<l.output>>)>>,
                 None, None, None)
        ELSE MissingHandler("show", format, key, <<batch>>)

(***************************************************************************)
(* Two threads sharing one client, each making one call on the reserved    *)
(* path.  A call is taken apart into the reads and writes of self._cookie  *)
(* and the request, which the interpreter can interleave: thr[t] holds the *)
(* position of thread t in its call (pc), the operation (op), the cookie   *)
(* header given to its request (hdr), whether the request went out (sent)  *)
(* and the Set-Cookie of the response (sc).                                *)
(***************************************************************************)
Threads == {1, 2}

NewThread ==
    [pc |-> "new", op |-> None, hdr |-> None, sent |-> FALSE, sc |-> None]

\* What a thread's postmsg gets from opener.open, as far as the cookie goes.
ThreadOutcomes ==
    { o \in Outcomes :
        \/ o.kind = "other"
        \/ o.kind = "response" /\ o.bodyOk /\ o.body = <<>> /\ o.ctype = None }

(***************************************************************************)
(* State.  BaseURL and cookie are the fields of the client; last describes *)
(* the latest call (its arguments, the request it built, what the network  *)
(* answered, what the caller got); uses, run and runCookie are history:    *)
(* uses counts the requests the latest captured cookie was attached to,    *)
(* run counts consecutive postmsg calls on the reserved path that began    *)
(* with a capture into an empty store, runCookie is what that capture      *)
(* stored, probed tells that there was a headrequest on the reserved path  *)
(* and that no postmsg on the reserved path got a response since.  thr is  *)
(* the state of the two threads, overlap tells that one of them began its  *)
(* call while the other was in the middle of its own.                      *)
(***************************************************************************)
Call(op, path, url, before, header, sent, timeout, o, ret, logged, logtext) ==
    [op |-> op, path |-> path, url |-> url, cookieBefore |-> before,
     reqCookie |-> header, dispatched |-> sent, timeout |-> timeout,
     outcome |-> o, ret |-> ret, logged |-> logged, logtext |-> logtext]

Bump(n) == IF n < MaxUses THEN n + 1 ELSE n

Init ==
    /\ \E baseurl \in BaseUrlArgs : BaseURL = rstrip(baseurl)
    /\ cookie = None
    /\ last = Call("init", <<>>, <<>>, None, None, FALSE, 0, NoOutcome,
                   NoResult, FALSE, <<>>)
    /\ uses = 0
    /\ run = 0
    /\ runCookie = None
    /\ probed = FALSE
    /\ thr = [t \in Threads |-> NewThread]
    /\ overlap = FALSE
    /\ cli = NoRun

headrequest(path) ==
    LET a == HeadAttach(path, cookie)
        url == HeadUrl(BaseURL, path)
    IN  /\ cookie' = a.cookie
        /\ uses' = IF a.header # None THEN Bump(uses) ELSE uses
        /\ run' = 0
        /\ runCookie' = None
        /\ probed' = (path = Reserved \/ probed)
        /\ UNCHANGED <<cli, BaseURL, thr, overlap>>
        /\ IF a.send
           THEN \E o \in Outcomes :
                  last' = Call("headrequest", path, url, cookie, a.header,
                               TRUE, HeadTimeout, o, HeadResult(o), FALSE,
                               <<>>)
           ELSE last' = Call("headrequest", path, url, cookie, a.header,
                             FALSE, 0, NoOutcome,
                             Returned("sentinel", NoCode,
                                      [codec |-> None,
                                       of |-> <<SessionNotEnabled>>]),
                             FALSE, <<>>)

getmsg(path) ==
    LET a == GetAttach(path, cookie)
        url == GetUrl(BaseURL, path)
    IN  /\ cookie' = a.cookie
        /\ uses' = IF a.header # None THEN Bump(uses) ELSE uses
        /\ run' = 0
        /\ runCookie' = None
        /\ UNCHANGED <<cli, BaseURL, probed, thr, overlap>>
        /\ \E o \in Outcomes :
             LET e == GetHTTPError(HTTPError(o))
             IN  last' =
                   CASE o.kind = "response" ->
                          Call("getmsg", path, url, cookie, a.header, TRUE,
                               GetTimeout, o, GetResponse(o),
                               FALSE, <<>>)
                     [] o.kind = "HTTPError" ->
                          Call("getmsg", path, url, cookie, a.header, TRUE,
                               GetTimeout, o, e.ret, e.logged, e.logtext)
                     [] OTHER ->
                          Call("getmsg", path, url, cookie, a.header, TRUE,
                               GetTimeout, o, TransportFailure(o), FALSE,
                               <<>>)

postmsg(msgtype, path) ==
    LET a == PostAttach(path, cookie)
        url == PostUrl(BaseURL, path, msgtype)
    IN  /\ UNCHANGED <<cli, BaseURL, thr, overlap>>
        /\ \E o \in Outcomes :
             LET e == PostHTTPError(HTTPError(o))
                 ok == o.kind = "response"
                 after == PostCookieAfter(path, a.cookie, o)
                 captured == ok /\ path = Reserved /\ ~Truthy(a.cookie)
                 starts == captured /\ o.setCookie # None
             IN  /\ cookie' = after
                 /\ probed' = (probed /\ ~(ok /\ path = Reserved))
                 /\ uses' = IF captured THEN 0
                            ELSE IF a.header # None THEN Bump(uses) ELSE uses
                 /\ run' = IF path = Reserved /\ run \in {1, 2} THEN run + 1
                           ELSE IF starts THEN 1 ELSE 0
                 /\ runCookie' = IF path = Reserved /\ run \in {1, 2}
                                 THEN runCookie
                                 ELSE IF starts THEN o.setCookie ELSE None
                 /\ last' =
                      CASE ok ->
                             Call("postmsg", path, url, cookie, a.header,
                                  TRUE, PostTimeout, o,
                                  PostResponse(o), FALSE, <<>>)
                        [] o.kind = "HTTPError" ->
                             Call("postmsg", path, url, cookie, a.header,
                                  TRUE, PostTimeout, o, e.ret, e.logged,
                                  e.logtext)
                        [] OTHER ->
                             Call("postmsg", path, url, cookie, a.header,
                                  TRUE, PostTimeout, o, TransportFailure(o),
                                  FALSE, <<>>)

Next ==
    \/ \E path \in Paths : headrequest(path)
    \/ \E path \in Paths : getmsg(path)
    \/ \E msgtype \in MsgTypes, path \in Paths : postmsg(msgtype, path)

Spec == Init /\ [][Next]_vars

(***************************************************************************)
(* The calls of the threads, step by step.  Before the threads begin, the  *)
(* client is used by postmsg calls on the reserved path (which is how it   *)
(* comes to hold a cookie).                                                *)
(***************************************************************************)
Busy(t) == thr[t].pc \notin {"new", "done"}

Start(t, op) ==
    /\ thr[t].pc = "new"
    /\ thr' = [thr EXCEPT ![t].pc = "check", ![t].op = op]
    /\ overlap' = (overlap \/ \E u \in Threads \ {t} : Busy(u))
    /\ UNCHANGED <<cli, BaseURL, cookie, last, uses, run, runCookie, probed>>

\* HeadClearStep, had line 65 been left out.
HeadClearStep_Keep(c) == c

\* Line 65.
HeadClearStep(c) == None

\* Lines 63, 106, 163: if self._cookie.
Check(t) ==
    /\ thr[t].pc = "check"
    /\ thr' = [thr EXCEPT ![t].pc =
                 IF Truthy(cookie) THEN "attach"
                 ELSE IF thr[t].op = "headrequest" THEN "done"
                 ELSE "open"]
    /\ UNCHANGED <<cli, BaseURL, cookie, last, uses, run, runCookie, probed,
                   overlap>>

\* Lines 64, 107, 164: request.add_header('cookie', self._cookie), which
\* reads self._cookie anew.
Attach(t) ==
    /\ thr[t].pc = "attach"
    /\ thr' = [thr EXCEPT ![t].hdr = cookie,
                          ![t].pc = IF thr[t].op = "headrequest"
                                    THEN "clear" ELSE "open"]
    /\ UNCHANGED <<cli, BaseURL, cookie, last, uses, run, runCookie, probed,
                   overlap>>

\* Line 65: self._cookie = None.
Clear(t) ==
    /\ thr[t].pc = "clear"
    /\ cookie' = HeadClearStep(cookie)
    /\ thr' = [thr EXCEPT ![t].pc = "open"]
    /\ UNCHANGED <<cli, BaseURL, last, uses, run, runCookie, probed, overlap>>

\* Lines 68, 108, 165: opener.open.
Open(t) ==
    /\ thr[t].pc = "open"
    /\ \E o \in ThreadOutcomes :
         thr' = [thr EXCEPT ![t].sent = TRUE,
                            ![t].sc = IF thr[t].op = "postmsg"
                                      THEN o.setCookie ELSE None,
                            ![t].pc = IF thr[t].op = "postmsg"
                                         /\ o.kind = "response"
                                      THEN "capcheck" ELSE "done"]
    /\ UNCHANGED <<cli, BaseURL, cookie, last, uses, run, runCookie, probed,
                   overlap>>

\* Line 166: if not self._cookie.
CaptureCheck(t) ==
    /\ thr[t].pc = "capcheck"
    /\ thr' = [thr EXCEPT ![t].pc =
                 IF ~Truthy(cookie) THEN "capassign" ELSE "done"]
    /\ UNCHANGED <<cli, BaseURL, cookie, last, uses, run, runCookie, probed,
                   overlap>>

\* Line 167: self._cookie = response.headers.get('Set-Cookie').
CaptureAssign(t) ==
    /\ thr[t].pc = "capassign"
    /\ cookie' = thr[t].sc
    /\ thr' = [thr EXCEPT ![t].pc = "done"]
    /\ UNCHANGED <<cli, BaseURL, last, uses, run, runCookie, probed, overlap>>

Prepare ==
    /\ \A t \in Threads : thr[t].pc = "new"
    /\ \E msgtype \in MsgTypes : postmsg(msgtype, Reserved)

NextThreads ==
    \/ Prepare
    \/ \E t \in Threads, op \in {"headrequest", "getmsg", "postmsg"} :
         Start(t, op)
    \/ \E t \in Threads : Check(t)
    \/ \E t \in Threads : Attach(t)
    \/ \E t \in Threads : Clear(t)
    \/ \E t \in Threads : Open(t)
    \/ \E t \in Threads : CaptureCheck(t)
    \/ \E t \in Threads : CaptureAssign(t)

SpecThreads == Init /\ [][NextThreads]_vars

(***************************************************************************)
(* The command line: one run of do_batch after the other.                  *)
(***************************************************************************)
do_batch(subcommand, format, key) ==
    /\ \/ /\ subcommand = "list"
          /\ \E batches \in BatchLists : cli' = ListRun(format, batches)
       \/ /\ subcommand = "show"
          /\ \E batch \in BatchRecords : cli' = ShowRun(format, key, batch)
    /\ UNCHANGED <<BaseURL, cookie, last, uses, run, runCookie, probed, thr,
                   overlap>>

NextBatch ==
    \E subcommand \in Subcommands, format \in Formats, key \in ShowKeys :
        do_batch(subcommand, format, key)

SpecBatch == Init /\ [][NextBatch]_vars

TypeOK ==
    /\ cookie \in SetCookieHeaders
    /\ uses \in 0..MaxUses
    /\ run \in 0..3
    /\ last.op \in {"init", "headrequest", "getmsg", "postmsg"}
    /\ probed \in BOOLEAN
    /\ overlap \in BOOLEAN
    /\ \A t \in Threads :
         thr[t].pc \in {"new", "check", "attach", "clear", "open",
                        "capcheck", "capassign", "done"}
    /\ cli.subcommand \in Subcommands \cup {None}

(***************************************************************************)
(* Properties                                                              *)
(***************************************************************************)
Ops == {"headrequest", "getmsg", "postmsg"}
OnReserved == last.op \in Ops /\ last.path = Reserved

C3_HeadSentinel ==
    OnReserved /\ last.op = "headrequest" =>
        /\ ~Truthy(last.cookieBefore) =>
             /\ last.ret.kind = "return"
             /\ last.ret.vtype = "sentinel"
             /\ last.ret.value.of = <<SessionNotEnabled>>
             /\ ~last.dispatched
             /\ last.outcome = NoOutcome
        /\ last.dispatched => Truthy(last.cookieBefore)

C3_Witness ==
    /\ OnReserved
    /\ last.op = "headrequest"
    /\ last.cookieBefore = ""
    /\ last.ret.vtype = "sentinel"
    /\ ~last.dispatched

HttpFailed == last.outcome.kind = "HTTPError"
NoResponse == last.outcome.kind \in {"URLError", "other"}
BodyReadFailed ==
    last.outcome.kind \in {"response", "HTTPError"} /\ ~last.outcome.bodyOk
Succeeded == last.outcome.kind = "response" /\ last.outcome.bodyOk
RaisedMessageException ==
    last.ret.kind = "raise" /\ last.ret.exc = "MessageException"
RaisedInvalidTransaction ==
    last.ret.kind = "raise" /\ last.ret.exc = "InvalidTransactionError"
HasMarker(body) == \E i \in 1..Len(body) : body[i] = Marker

\* C4: a postmsg answered with 400 and a body without the marker, and a
\* getmsg answered with 400, raise MessageException carrying status 400 and
\* not InvalidTransactionError.
C4_Generic400 ==
    (\/ last.op = "postmsg" /\ HttpFailed /\ last.outcome.code = 400
          /\ ~HasMarker(last.outcome.body)
     \/ last.op = "getmsg" /\ HttpFailed /\ last.outcome.code = 400)
    => RaisedMessageException /\ last.ret.errcode = 400

\* C5: a postmsg answered with 400 and a body that contains the marker,
\* wherever it stands, raises InvalidTransactionError; a postmsg answered
\* with another error status raises MessageException whatever the body.
C5_MarkerRaisesInvalidTransaction ==
    last.op = "postmsg" /\ HttpFailed =>
        /\ last.outcome.code = 400 /\ HasMarker(last.outcome.body) =>
             RaisedInvalidTransaction
        /\ last.outcome.code # 400 =>
             RaisedMessageException /\ last.ret.errcode = last.outcome.code

C5_Witness ==
    /\ last.op = "postmsg"
    /\ HttpFailed
    /\ last.outcome.code = 400
    /\ last.outcome.body = <<Marker>>
    /\ RaisedInvalidTransaction

\* C6: headrequest returns the status code of every HTTP response, success
\* or error, and raises (MessageException) only when there was none.
C6_HeadReturnsStatus ==
    last.op = "headrequest" /\ last.dispatched =>
        /\ last.outcome.kind \in {"response", "HTTPError"} =>
             /\ last.ret.kind = "return"
             /\ last.ret.vtype = "status"
             /\ last.ret.code = last.outcome.code
        /\ last.ret.kind = "raise" => NoResponse /\ RaisedMessageException
        /\ NoResponse => RaisedMessageException

C6_Witness ==
    /\ last.op = "headrequest"
    /\ HttpFailed
    /\ last.outcome.code = 500
    /\ last.ret.kind = "return"
    /\ last.ret.code = 500

\* C7: a getmsg or postmsg whose transport failed (no response, or the
\* connection failing while the body is read) or whose HTTP status is an
\* error raises MessageException or InvalidTransactionError and returns
\* nothing; a value is returned only for a successful response.
C7_FailuresAreRaised ==
    last.op \in {"getmsg", "postmsg"} =>
        /\ NoResponse \/ HttpFailed \/ BodyReadFailed =>
             /\ RaisedMessageException \/ RaisedInvalidTransaction
             /\ last.ret.vtype = None
             /\ last.ret.value = NoValue
        /\ last.ret.kind = "return" => Succeeded

\* C8: no step changes a held (non-empty) cookie into a different value
\* other than by emptying the store, and a successful postmsg on the
\* reserved path stores the response's Set-Cookie exactly when the store
\* was empty, leaving a held value as it was.
C8_FirstWriteWins ==
    [][/\ Truthy(cookie) => cookie' = cookie \/ ~Truthy(cookie')
       /\ (last'.op = "postmsg" /\ last'.path = Reserved
           /\ last'.outcome.kind = "response") =>
            cookie' = IF Truthy(cookie) THEN cookie
                      ELSE last'.outcome.setCookie]_vars

C8_Witness ==
    /\ OnReserved
    /\ last.op = "postmsg"
    /\ Succeeded
    /\ Truthy(last.cookieBefore)
    /\ Truthy(last.outcome.setCookie)
    /\ last.outcome.setCookie # last.cookieBefore
    /\ cookie = last.cookieBefore

\* C9: an operation whose path argument is not the reserved path sends no
\* cookie header and leaves the store as it was, whatever the network
\* answered (a Set-Cookie of the response is not stored).
C9_OtherPathsLeaveCookie ==
    last.op \in Ops /\ last.path # Reserved =>
        /\ last.reqCookie = None
        /\ cookie = last.cookieBefore

C9_Witness ==
    /\ last.op = "postmsg"
    /\ last.path = <<>>
    /\ last.outcome.kind = "response"
    /\ last.cookieBefore = "sid=A"
    /\ last.outcome.setCookie = "sid=B"
    /\ last.reqCookie = None
    /\ cookie = "sid=A"

\* C10: on a successful response getmsg and postmsg both return the mapping
\* json2dict gives for application/json and the one cbor2dict gives for
\* application/cbor; for any other or no content type getmsg returns the
\* body as it is and postmsg returns None.
C10_DecodeByContentType ==
    last.op \in {"getmsg", "postmsg"} /\ Succeeded =>
        /\ last.ret.kind = "return"
        /\ last.outcome.ctype = "application/json" =>
             /\ last.ret.vtype = "dict"
             /\ last.ret.value = json2dict(last.outcome.body)
        /\ last.outcome.ctype = "application/cbor" =>
             /\ last.ret.vtype = "dict"
             /\ last.ret.value = cbor2dict(last.outcome.body)
        /\ last.outcome.ctype \notin {"application/json", "application/cbor"} =>
             IF last.op = "getmsg"
             THEN /\ last.ret.vtype = "bytes"
                  /\ last.ret.value.of = last.outcome.body
             ELSE /\ last.ret.vtype = "None"
                  /\ last.ret.value = NoValue

C10_Witness ==
    /\ last.op = "postmsg"
    /\ Succeeded
    /\ last.outcome.ctype = None
    /\ last.outcome.body = <<"payload">>
    /\ last.ret.vtype = "None"

\* C11: the InvalidTransactionError that postmsg raises for a 400 carries
\* the whole body the server sent.
C11_ErrorCarriesBody ==
    (/\ last.op = "postmsg"
     /\ HttpFailed
     /\ last.outcome.code = 400
     /\ last.outcome.bodyOk
     /\ RaisedInvalidTransaction)
    => last.ret.errtext = last.outcome.body

\* C12 (as stated): every request that goes out has a timeout, and the one
\* of headrequest is shorter than those of getmsg and postmsg.
C12_HeadTimeoutShorter ==
    last.dispatched =>
        /\ last.timeout > 0
        /\ last.op = "headrequest" =>
             last.timeout < GetTimeout /\ last.timeout < PostTimeout

\* C12 (amended): every request that goes out has a timeout: 30 seconds for
\* headrequest, 10 for getmsg and for postmsg, so that the one of
\* headrequest is the longer.
C12_HeadTimeoutLonger ==
    last.dispatched =>
        /\ last.timeout > 0
        /\ last.op = "headrequest" =>
             /\ last.timeout = 30
             /\ last.timeout > GetTimeout
             /\ last.timeout > PostTimeout
        /\ last.op \in {"getmsg", "postmsg"} => last.timeout = 10

C12_Witness ==
    /\ last.op = "headrequest"
    /\ last.dispatched
    /\ last.timeout = 30

ReturnedSentinel ==
    /\ last.ret.kind = "return"
    /\ last.ret.vtype = "sentinel"
    /\ ~last.dispatched

\* C16: a headrequest on the reserved path that follows another one, with
\* no postmsg on the reserved path answered by a non-error response in
\* between, returns the sentinel without a network call, whatever the
\* earlier call's outcome was.
C16_SecondHeadGetsSentinel ==
    [][(probed /\ last'.op = "headrequest" /\ last'.path = Reserved) =>
         /\ last'.ret.kind = "return"
         /\ last'.ret.vtype = "sentinel"
         /\ ~last'.dispatched
         /\ last'.outcome = NoOutcome]_vars

C16_Witness ==
    /\ probed
    /\ OnReserved
    /\ last.op = "headrequest"
    /\ last.cookieBefore = None
    /\ ReturnedSentinel
    /\ uses >= 1

\* C17: a headrequest on the reserved path with a cookie held leaves the
\* store empty for every outcome of the request, a transport failure
\* included, the request having been given the cookie.
C17_HeadConsumesOnFailure ==
    (OnReserved /\ last.op = "headrequest" /\ Truthy(last.cookieBefore)) =>
        /\ cookie = None
        /\ last.reqCookie = last.cookieBefore
        /\ last.outcome \in Outcomes

C17_Witness ==
    /\ OnReserved
    /\ last.op = "headrequest"
    /\ Truthy(last.cookieBefore)
    /\ NoResponse
    /\ RaisedMessageException
    /\ cookie = None

\* C18: a getmsg or postmsg that raises MessageException or
\* InvalidTransactionError leaves the cookie as it was, and the store goes
\* from empty to non-empty only in a postmsg on the reserved path that got
\* a non-error response.
C18_FailedCallsKeepCookie ==
    [][/\ (/\ last'.op \in {"getmsg", "postmsg"}
           /\ last'.ret.kind = "raise"
           /\ last'.ret.exc \in {"MessageException",
                                 "InvalidTransactionError"})
          => cookie' = cookie
       /\ (~Truthy(cookie) /\ Truthy(cookie')) =>
            /\ last'.op = "postmsg"
            /\ last'.path = Reserved
            /\ last'.outcome.kind = "response"]_vars

C18_Witness ==
    /\ OnReserved
    /\ last.op = "postmsg"
    /\ HttpFailed
    /\ last.outcome.setCookie = "sid=B"
    /\ RaisedInvalidTransaction
    /\ last.cookieBefore = None
    /\ cookie = None

\* C19: headrequest and getmsg called with a path that is not '/prevalidation'
\* itself but gives the same URL send their request to that URL without a
\* cookie header and leave the store alone; headrequest sends it even when
\* no cookie is held.
C19_ExactPathMatch ==
    (/\ last.op \in {"headrequest", "getmsg"}
     /\ last.path # Reserved
     /\ strip(last.path) = strip(Reserved)) =>
        /\ last.url = BaseURL \o <<"/", "prevalidation">>
        /\ last.dispatched
        /\ last.reqCookie = None
        /\ cookie = last.cookieBefore

C19_Witness ==
    /\ last.op = "headrequest"
    /\ last.path = <<"/", "prevalidation", "/">>
    /\ ~Truthy(last.cookieBefore)
    /\ last.url = BaseURL \o <<"/", "prevalidation">>
    /\ last.dispatched

BothDone == \A t \in Threads : thr[t].pc = "done"
BothHead == \A t \in Threads : thr[t].op = "headrequest"

\* C13: two headrequest calls on the reserved path made one after the other
\* give the held cookie to at most one request; when the calls of two
\* threads overlap, both requests can get it (the witness).
C13_SequentialHeadsAttachOnce ==
    (BothDone /\ BothHead /\ ~overlap) =>
        ~(\A t \in Threads : thr[t].sent /\ Truthy(thr[t].hdr))

C13_Witness ==
    /\ BothDone
    /\ BothHead
    /\ overlap
    /\ \A t \in Threads : thr[t].sent /\ Truthy(thr[t].hdr)
    /\ thr[1].hdr = thr[2].hdr

Matching(format) ==
    CASE format = "default" -> "print_terminal_table"
      [] format = "csv" -> "print_csv"
      [] format = "json" -> "print_json"
      [] format = "yaml" -> "print_yaml"

PrintedOnly(printer) ==
    /\ Len(cli.printed) = 1
    /\ cli.printed[1].printer = printer
    /\ cli.exc = None

RaisedMissingHandler ==
    /\ cli.exc = "AssertionError"
    /\ cli.msg = "Missing handler: {}"
    /\ cli.arg = cli.format
    /\ cli.printed = <<>>

KeyFound ==
    \/ ~Truthy(cli.key)
    \/ cli.key \in DOMAIN cli.input[1]
    \/ cli.key \in DOMAIN cli.input[1]["header"]

\* C14 (as stated): batch list with format default, csv, json or yaml and
\* batch show with format yaml or json call the one printer of that format
\* and no other; with any other format do_batch raises the 'Missing
\* handler' AssertionError and prints nothing.
C14_DispatchExhaustive ==
    /\ cli.subcommand = "list" =>
         IF cli.format \in {"default", "csv", "json", "yaml"}
         THEN PrintedOnly(Matching(cli.format))
         ELSE RaisedMissingHandler
    /\ cli.subcommand = "show" =>
         IF cli.format \in {"yaml", "json"}
         THEN PrintedOnly(Matching(cli.format))
         ELSE RaisedMissingHandler

\* C14 (amended): the same, batch show being taken once its key, if one is
\* given, was found in the batch or in its header; a key found in neither
\* raises CliException and prints nothing, whatever the format.
C14_DispatchAfterKeyLookup ==
    /\ cli.subcommand = "list" =>
         IF cli.format \in {"default", "csv", "json", "yaml"}
         THEN PrintedOnly(Matching(cli.format))
         ELSE RaisedMissingHandler
    /\ cli.subcommand = "show" /\ KeyFound =>
         IF cli.format \in {"yaml", "json"}
         THEN PrintedOnly(Matching(cli.format))
         ELSE RaisedMissingHandler
    /\ cli.subcommand = "show" /\ ~KeyFound =>
         /\ cli.exc = "CliException"
         /\ cli.arg = cli.key
         /\ cli.printed = <<>>

C14_Witness ==
    /\ cli.subcommand = "show"
    /\ cli.format = "csv"
    /\ cli.key = "signer_pubkey"
    /\ KeyFound
    /\ RaisedMissingHandler

Count(batch) ==
    IF "transactions" \in DOMAIN batch THEN Len(batch.transactions) ELSE 0

\* C15: batch list makes of every batch the row (header_signature, number
\* of transactions, header.signer_pubkey), the number being 0 for a batch
\* without 'transactions'; json and yaml get the same three values under
\* the keys batch_id, txns and signer.
C15_RowProjection ==
    (cli.subcommand = "list" /\ cli.exc = None) =>
        /\ Len(cli.printed) = 1
        /\ cli.format \in {"default", "csv"} =>
             /\ cli.printed[1].headers = <<"BATCH_ID", "TXNS", "SIGNER">>
             /\ Len(cli.printed[1].rows) = Len(cli.input)
             /\ \A i \in 1..Len(cli.input) :
                  cli.printed[1].rows[i] =
                    <<cli.input[i].header_signature, Count(cli.input[i]),
                      cli.input[i].header.signer_pubkey>>
        /\ cli.format \in {"json", "yaml"} =>
             /\ Len(cli.printed[1].data) = Len(cli.input)
             /\ \A i \in 1..Len(cli.input) :
                  /\ DOMAIN cli.printed[1].data[i] =
                       {"batch_id", "txns", "signer"}
                  /\ cli.printed[1].data[i].batch_id =
                       cli.input[i].header_signature
                  /\ cli.printed[1].data[i].txns = Count(cli.input[i])
                  /\ cli.printed[1].data[i].signer =
                       cli.input[i].header.signer_pubkey

C15_Witness ==
    /\ cli.subcommand = "list"
    /\ cli.format = "json"
    /\ Len(cli.input) = 2
    /\ cli.input[1].header_signature = "abc"
    /\ "transactions" \notin DOMAIN cli.input[2]
    /\ cli.printed[1].data[1].txns = 2
    /\ cli.printed[1].data[2].txns = 0
    /\ cli.printed[1].data[2].signer = "pk2"

====
